---- MODULE Spec2Model ----
(***************************************************************************)
(* The filter / aggregate / linear-projection pipeline of the Safe Walk    *)
(* dashboards (modernUI.py; app.py, app1.py and safe_walk_crimes.py carry  *)
(* the same filter).  One run of the script is a sequence of steps:        *)
(*   sidebar -> filter -> aggregate -> project -> render -> done           *)
(* and Streamlit runs the script again after every widget change.          *)
(*                                                                         *)
(* The incident table df is a bag of rows, each row reduced to the two     *)
(* columns the pipeline reads, [Year, Type]: boolean-mask selection and    *)
(* groupby().size() do not depend on the order of the rows.                *)
(***************************************************************************)
EXTENDS Integers, Sequences, FiniteSets

VARIABLES df, year_range, selected_types, filtered, yearly, coeffs,
          pred_2026, trace_x, total_metric, first_run, pc

vars == <<df, year_range, selected_types, filtered, yearly, coeffs,
          pred_2026, trace_x, total_metric, first_run, pc>>

----------------------------------------------------------------------------
(* Program constants *)

\* df['Year'] of a row whose Date did not parse (errors='coerce' gives NaT,
\* .dt.year gives <NA>).
NA == 0

\* A missing 'Primary Type' cell (NaN).
TypeNA == "nan"

\* the threshold one too low
MinYears_Four == 5 - 1

\* `if len(yearly) >= 5`
MinYears == 5

\* `yearly.tail(5)`
Window == 5

\* the target year one too late
TargetYear_Late == 2026 + 1

\* `coeffs[0] * 2026 + coeffs[1]`, and the x of the projection trace
TargetYear == 2026

\* the slider's default lower end, `max_y - 7`
DefaultSpan == 7

----------------------------------------------------------------------------
(* Bounds of the model *)

\* rows of an enumerated small table
MaxRows == 3

\* distinct years the small tables draw from (the years just before TargetYear)
NumSmallYears == 3

\* distinct years the trend tables draw from
NumYears == 6

\* incidents per year in a trend table
MaxCount == 3

SmallYears == (TargetYear - NumSmallYears)..(TargetYear - 1)

TrendYears == (TargetYear - NumYears)..(TargetYear - 1)

Types == {"ASSAULT", "BATTERY"}

Records == [Year : SmallYears \cup {NA}, Type : Types \cup {TypeNA}]

----------------------------------------------------------------------------
(* Bags of rows *)

NoRows == [r \in {} |-> 0]

Count(b, r) == IF r \in DOMAIN b THEN b[r] ELSE 0

RECURSIVE SumOver(_, _)
SumOver(b, S) ==
    IF S = {} THEN 0
    ELSE LET r == CHOOSE x \in S : TRUE IN b[r] + SumOver(b, S \ {r})

\* len(frame)
Rows(b) == SumOver(b, DOMAIN b)

\* frame[mask]: the rows whose mask is True (mask: the set of such rows),
\* each as often as it occurs
Select(b, mask) == [r \in DOMAIN b \cap mask |-> b[r]]

Min(S) == CHOOSE m \in S : \A x \in S : m <= x

Max(S) == CHOOSE m \in S : \A x \in S : m >= x

None == <<>>

Some(v) == <<v>>

\* df['Year'] without its <NA> entries
KnownYears(b) == {r.Year : r \in DOMAIN b} \ {NA}

----------------------------------------------------------------------------
(* The tables the dashboards are run on *)

BagOf(s) ==
    [r \in {s[i] : i \in DOMAIN s} |-> Cardinality({i \in DOMAIN s : s[i] = r})]

\* every table of at most MaxRows rows over Records
SmallTables ==
    UNION {{BagOf(s) : s \in [1..n -> Records]} : n \in 0..MaxRows}

\* one crime type, prof[y] incidents in year y
TableOf(prof) ==
    [r \in {[Year |-> y, Type |-> "ASSAULT"] : y \in {z \in DOMAIN prof : prof[z] > 0}}
        |-> prof[r.Year]]

TrendTables ==
    {TableOf(prof) : prof \in [TrendYears -> 0..MaxCount]} \ {NoRows}

\* the worked example: 2020..2024 with 100, 110, 120, 130, 140 incidents
ExampleCounts == [y \in 2020..2024 |-> 100 + 10 * (y - 2020)]

ExampleTable == TableOf(ExampleCounts)

\* one incident in each of the 11 years before TargetYear
LongTable == TableOf([y \in (TargetYear - 11)..(TargetYear - 1) |-> 1])

SampleTables == {ExampleTable, LongTable}

----------------------------------------------------------------------------
(* Sidebar: the year slider and the crime-type multiselect *)

\* sorted(df['Primary Type'].dropna().unique()), as a set
TypesOffered(b) == {r.Type : r \in DOMAIN b} \ {TypeNA}

\* the slider's value before the user touches it
DefaultRange(max_y) == <<max_y - DefaultSpan, max_y>>

\* the multiselect's value before the user touches it, `types[:10]`: every
\* offered type, the tables here having fewer than 10 types
DefaultTypes(b) == TypesOffered(b)

\* What st.slider(min_y, max_y, default) can return: a pair lo <= hi on the
\* slider, whose range Streamlit widens to hold the default value.
SliderChoices(min_y, max_y) ==
    LET lowest == Min({min_y, DefaultRange(max_y)[1]})
    IN  {yr \in (lowest..max_y) \X (lowest..max_y) : yr[1] <= yr[2]}

----------------------------------------------------------------------------
(* Apply filters *)

\* the two comparisons joined by `|` in place of `&`
YearMask_Either(r, yr) == r.Year # NA /\ (r.Year >= yr[1] \/ r.Year <= yr[2])

\* the upper end of the range left out
YearMask_Exclusive(r, yr) == r.Year # NA /\ r.Year >= yr[1] /\ r.Year < yr[2]

\* (filtered['Year'] >= year_range[0]) & (filtered['Year'] <= year_range[1]):
\* a comparison with <NA> is <NA>, and a boolean mask takes <NA> as False.
YearMask(r, yr) == r.Year # NA /\ r.Year >= yr[1] /\ r.Year <= yr[2]

\* the upper end of the range never tested
FilterYear_LowerOnly(b, yr) == Select(b, {r \in DOMAIN b : r.Year # NA /\ r.Year >= yr[1]})

FilterYear(b, yr) == Select(b, {r \in DOMAIN b : YearMask(r, yr)})

\* isin() applied to an empty selection too
FilterType_Always(b, sel) == Select(b, {r \in DOMAIN b : r.Type \in sel})

\* `if ... and selected_types:` an empty selection filters nothing;
\* NaN is in no selection, so isin() is False for a row without a type.
FilterType(b, sel) == IF sel # {} THEN Select(b, {r \in DOMAIN b : r.Type \in sel}) ELSE b

----------------------------------------------------------------------------
(* Yearly summary *)

RECURSIVE SortedSeq(_)
SortedSeq(S) ==
    IF S = {} THEN <<>>
    ELSE LET m == Min(S) IN <<m>> \o SortedSeq(S \ {m})

\* the distinct rows of a year counted, not the rows
GroupBySize_Distinct(b) ==
    LET ys == SortedSeq(KnownYears(b))
    IN  [i \in 1..Len(ys) |->
            [Year  |-> ys[i],
             Total |-> Cardinality({r \in DOMAIN b : r.Year = ys[i]})]]

\* filtered.groupby('Year').size().reset_index(name='Total Crimes'):
\* one row per year that occurs (a <NA> key forms no group), keys ascending
GroupBySize(b) ==
    LET ys == SortedSeq(KnownYears(b))
    IN  [i \in 1..Len(ys) |->
            [Year  |-> ys[i],
             Total |-> SumOver(b, {r \in DOMAIN b : r.Year = ys[i]})]]

RECURSIVE Insert(_, _)
Insert(e, s) ==
    IF s = <<>> THEN <<e>>
    ELSE IF e.Year < Head(s).Year THEN <<e>> \o s
    ELSE <<Head(s)>> \o Insert(e, Tail(s))

\* yearly.sort_values('Year')
RECURSIVE SortValues(_)
SortValues(s) ==
    IF s = <<>> THEN <<>> ELSE Insert(Head(s), SortValues(Tail(s)))

\* head(n) in place of tail(n)
TailRows_Head(s, n) ==
    IF Len(s) <= n THEN s ELSE SubSeq(s, 1, n)

\* yearly.tail(n)
TailRows(s, n) ==
    IF Len(s) <= n THEN s ELSE SubSeq(s, Len(s) - n + 1, Len(s))

----------------------------------------------------------------------------
(* Linear projection *)

RECURSIVE SeqSum(_)
SeqSum(s) == IF s = <<>> THEN 0 ELSE Head(s) + SeqSum(Tail(s))

\* the covariance taken without subtracting the product of the means
PolyFit_Uncentred(pts) ==
    LET n   == Len(pts)
        x0  == pts[1].Year
        Sx  == SeqSum([i \in 1..n |-> pts[i].Year])
        Sy  == SeqSum([i \in 1..n |-> pts[i].Total])
        Sd  == SeqSum([i \in 1..n |-> pts[i].Year - x0])
        Sdd == SeqSum([i \in 1..n |-> (pts[i].Year - x0) * (pts[i].Year - x0)])
        Sdy == SeqSum([i \in 1..n |-> (pts[i].Year - x0) * pts[i].Total])
        d   == n * Sdd - Sd * Sd
        an  == n * Sdy
    IN  [a |-> n * an, b |-> Sy * d - an * Sx, den |-> n * d]

\* np.polyfit(x, y, 1): the least-squares line y = a*x + b through the points,
\* as the exact fractions a = a/den, b = b/den.  With n points,
\*   a = (n*Sxy - Sx*Sy) / (n*Sxx - Sx^2),   b = (Sy - a*Sx) / n ;
\* the two differences are the same for x measured from the first point, which
\* keeps the sums small.
PolyFit(pts) ==
    LET n   == Len(pts)
        x0  == pts[1].Year
        Sx  == SeqSum([i \in 1..n |-> pts[i].Year])
        Sy  == SeqSum([i \in 1..n |-> pts[i].Total])
        Sd  == SeqSum([i \in 1..n |-> pts[i].Year - x0])
        Sdd == SeqSum([i \in 1..n |-> (pts[i].Year - x0) * (pts[i].Year - x0)])
        Sdy == SeqSum([i \in 1..n |-> (pts[i].Year - x0) * pts[i].Total])
        d   == n * Sdd - Sd * Sd
        an  == n * Sdy - Sd * Sy
    IN  [a |-> n * an, b |-> Sy * d - an * Sx, den |-> n * d]

\* coeffs[0] * t + coeffs[1], as the fraction num/den
LineAt(c, t) == [num |-> c.a * t + c.b, den |-> c.den]

\* round(num/den), den > 0.  Python rounds a half to even, but the float that
\* polyfit returns for an exact half may lie on either side of it.
RoundChoices(v) ==
    LET fl == v.num \div v.den
        r  == v.num % v.den
    IN  IF 2 * r < v.den THEN {fl}
        ELSE IF 2 * r > v.den THEN {fl + 1}
        ELSE {fl, fl + 1}

\* no clamp
Clamp_Off(v) == v

\* `if pred_2026 < 0: pred_2026 = 0`
Clamp(v) == IF v < 0 THEN 0 ELSE v

----------------------------------------------------------------------------
(* One run of the script *)

\* the script's variables before the sidebar block has run, on table tbl
Fresh(tbl) ==
    /\ df = tbl
    /\ year_range = None
    /\ selected_types = {}
    /\ filtered = NoRows
    /\ yearly = <<>>
    /\ coeffs = None
    /\ pred_2026 = None
    /\ trace_x = <<>>
    /\ total_metric = 0
    /\ first_run = TRUE
    /\ pc = "sidebar"

Init == \E tbl \in SmallTables \cup SampleTables : Fresh(tbl)

\* `with st.sidebar:` year_range is assigned only when some Year is known;
\* the multiselect offers the observed types.  On the first run of a session
\* the widgets return their defaults; a later run follows a change of a
\* widget and returns what the user has set.
Sidebar ==
    /\ pc = "sidebar"
    /\ IF KnownYears(df) # {}
       THEN IF first_run
            THEN year_range' = DefaultRange(Max(KnownYears(df)))
            ELSE year_range' \in
                    SliderChoices(Min(KnownYears(df)), Max(KnownYears(df)))
       ELSE year_range' = year_range
    /\ IF first_run
       THEN selected_types' = DefaultTypes(df)
       ELSE selected_types' \in SUBSET TypesOffered(df)
    /\ pc' = "filter"
    /\ UNCHANGED <<df, filtered, yearly, coeffs, pred_2026, trace_x,
                   total_metric, first_run>>

\* the masks applied to df itself, `df = df[mask]`
ApplyFilters_InPlace ==
    /\ pc = "filter"
    /\ IF year_range = None
       THEN /\ pc' = "error"
            /\ UNCHANGED <<df, filtered>>
       ELSE /\ filtered' = FilterType(FilterYear(df, year_range), selected_types)
            /\ df' = filtered'
            /\ pc' = "aggregate"
    /\ UNCHANGED <<year_range, selected_types, yearly, coeffs, pred_2026,
                   trace_x, total_metric, first_run>>

\* `filtered = df.copy()`, then the year mask and the type mask.  Reading
\* year_range when the slider was never created raises NameError.
ApplyFilters ==
    /\ pc = "filter"
    /\ IF year_range = None
       THEN /\ pc' = "error"
            /\ UNCHANGED filtered
       ELSE /\ filtered' = FilterType(FilterYear(df, year_range), selected_types)
            /\ pc' = "aggregate"
    /\ UNCHANGED <<df, year_range, selected_types, yearly, coeffs, pred_2026,
                   trace_x, total_metric, first_run>>

\* groupby('Year').size(), sorted by year
Aggregate ==
    /\ pc = "aggregate"
    /\ yearly' = SortValues(GroupBySize(filtered))
    /\ pc' = "project"
    /\ UNCHANGED <<df, year_range, selected_types, filtered, coeffs, pred_2026,
                   trace_x, total_metric, first_run>>

\* pred_2026: None, or the line through the last Window years at TargetYear
Project ==
    /\ pc = "project"
    /\ IF Len(yearly) >= MinYears
       THEN LET recent == TailRows(yearly, Window)
                c      == PolyFit(recent)
            IN  /\ coeffs' = Some(c)
                /\ \E v \in RoundChoices(LineAt(c, TargetYear)) :
                       pred_2026' = Some(Clamp(v))
       ELSE /\ coeffs' = None
            /\ pred_2026' = None
    /\ pc' = "render"
    /\ UNCHANGED <<df, year_range, selected_types, filtered, yearly, trace_x,
                   total_metric, first_run>>

\* the x values of the '2026 Projection' trace, and "Total Crimes (filtered)"
Render ==
    /\ pc = "render"
    /\ trace_x' = IF pred_2026 # None
                  THEN <<yearly[Len(yearly)].Year, TargetYear>>
                  ELSE <<>>
    /\ total_metric' = Rows(filtered)
    /\ pc' = "done"
    /\ UNCHANGED <<df, year_range, selected_types, filtered, yearly, coeffs,
                   pred_2026, first_run>>

\* Streamlit runs the script again from the top; load_crimes() is cached
Rerun ==
    /\ pc \in {"done", "error"}
    /\ year_range' = None
    /\ selected_types' = {}
    /\ filtered' = NoRows
    /\ yearly' = <<>>
    /\ coeffs' = None
    /\ pred_2026' = None
    /\ trace_x' = <<>>
    /\ total_metric' = 0
    /\ first_run' = FALSE
    /\ pc' = "sidebar"
    /\ UNCHANGED df

Next == Sidebar \/ ApplyFilters \/ Aggregate \/ Project \/ Render \/ Rerun

Spec == Init /\ [][Next]_vars

\* The filter as a function of its criteria: every small table, every pair of
\* years as year_range, the pairs with year_range[0] > year_range[1] included
\* (the slider itself returns none of those), and every selection of types.
InitCriteria ==
    \E tbl \in SmallTables, yr \in SmallYears \X SmallYears, sel \in SUBSET Types :
        /\ df = tbl
        /\ year_range = yr
        /\ selected_types = sel
        /\ filtered = NoRows
        /\ yearly = <<>>
        /\ coeffs = None
        /\ pred_2026 = None
        /\ trace_x = <<>>
        /\ total_metric = 0
        /\ first_run = FALSE
        /\ pc = "filter"

NextCriteria == ApplyFilters \/ Aggregate \/ Project \/ Render

SpecCriteria == InitCriteria /\ [][NextCriteria]_vars

\* The projector on its own: every table of one crime type over TrendYears,
\* shown with the full observed year range and the offered type selected.
InitTrend ==
    \E tbl \in TrendTables :
        /\ df = tbl
        /\ year_range = <<Min(KnownYears(tbl)), Max(KnownYears(tbl))>>
        /\ selected_types = TypesOffered(tbl)
        /\ filtered = NoRows
        /\ yearly = <<>>
        /\ coeffs = None
        /\ pred_2026 = None
        /\ trace_x = <<>>
        /\ total_metric = 0
        /\ first_run = FALSE
        /\ pc = "filter"

NextTrend == ApplyFilters \/ Aggregate \/ Project \/ Render

SpecTrend == InitTrend /\ [][NextTrend]_vars

----------------------------------------------------------------------------
(* Properties *)

AfterFilter == {"aggregate", "project", "render", "done"}

AfterAggregate == {"project", "render", "done"}

AfterProject == {"render", "done"}

\* the rows of b with a parsed timestamp
Parseable(b) == Select(b, {r \in DOMAIN b : r.Year # NA})

\* the number of rows of b in year y
RowsOfYear(b, y) == Rows(Select(b, {r \in DOMAIN b : r.Year = y}))

YearlyTotals == [i \in 1..Len(yearly) |-> yearly[i].Total]

YearlyKeys == {yearly[i].Year : i \in 1..Len(yearly)}

\* C1: once the filters are applied, the filtered rows are exactly the rows of
\* df whose year is known and lies in [year_range[0], year_range[1]], both ends
\* included, and whose type is selected; with nothing selected, the type is
\* not looked at.
C1_FilterExact ==
    pc \in AfterFilter =>
        /\ DOMAIN filtered \subseteq DOMAIN df
        /\ \A r \in DOMAIN df :
              Count(filtered, r) =
                 IF /\ r.Year # NA
                    /\ year_range[1] <= r.Year
                    /\ r.Year <= year_range[2]
                    /\ (selected_types = {} \/ r.Type \in selected_types)
                 THEN df[r]
                 ELSE 0

\* C1's case: a selection of types and a year range that each drop a row with
\* a known year, and keep another.
C1_Witness ==
    /\ pc = "aggregate"
    /\ selected_types # {}
    /\ filtered # NoRows
    /\ \E r \in DOMAIN df :
          r.Year # NA /\ r.Year = year_range[2] /\ r \in DOMAIN filtered
    /\ \E r \in DOMAIN df :
          r.Year # NA /\ r.Year > year_range[2]
    /\ \E r \in DOMAIN df :
          /\ r.Year # NA
          /\ r.Year >= year_range[1]
          /\ r.Year <= year_range[2]
          /\ r.Type \in Types \ selected_types

\* C2: after the projection step there is a projected number exactly when the
\* filtered rows span at least 5 distinct years; with fewer there is none, and
\* the filtered rows and the yearly summary are still the ones computed.
C2_ProjectionThreshold ==
    pc \in AfterProject =>
        /\ (pred_2026 # None) <=> (Cardinality(KnownYears(filtered)) >= 5)
        /\ Cardinality(KnownYears(filtered)) < 5 =>
              /\ pred_2026 = None
              /\ filtered = FilterType(FilterYear(df, year_range), selected_types)
              /\ Len(yearly) = Cardinality(KnownYears(filtered))
              /\ \A i \in 1..Len(yearly) :
                    yearly[i].Total = RowsOfYear(filtered, yearly[i].Year)

\* C2's case: four distinct years, one short of the threshold.
C2_Witness ==
    /\ pc = "done"
    /\ Cardinality(KnownYears(filtered)) = 4
    /\ Len(yearly) = 4
    /\ pred_2026 = None

\* C3: a projected number is never negative, and it is 0 whenever the fitted
\* line is below zero at the target year.
C3_NonNegative ==
    (pc \in AfterProject /\ pred_2026 # None) =>
        /\ pred_2026[1] \in Nat
        /\ LineAt(coeffs[1], 2026).num < 0 => pred_2026[1] = 0

\* C3's case: the line is low enough at the target year to round to a
\* negative number.
C3_Witness ==
    /\ pc = "render"
    /\ pred_2026 = Some(0)
    /\ 2 * LineAt(coeffs[1], 2026).num < -LineAt(coeffs[1], 2026).den

\* C4 as claimed: the target year of the projection is the year after the last
\* year of the yearly summary.
C4_TargetIsNextYear ==
    (pc = "done" /\ pred_2026 # None) =>
        trace_x[2] = yearly[Len(yearly)].Year + 1

\* C4: the projection is the fitted line at the one target year 2026, whatever
\* the last year of the yearly summary; that is the year after the last one
\* only when the last one is 2025.
C4_TargetIsFixed ==
    (pc = "done" /\ pred_2026 # None) =>
        /\ trace_x = <<yearly[Len(yearly)].Year, 2026>>
        /\ pred_2026[1] \in
              {Clamp(v) : v \in RoundChoices(LineAt(coeffs[1], 2026))}
        /\ (trace_x[2] = trace_x[1] + 1) <=> (yearly[Len(yearly)].Year = 2025)

\* C4's case: a projection from a summary that ends in 2024.
C4_Witness ==
    /\ pc = "done"
    /\ pred_2026 # None
    /\ yearly[Len(yearly)].Year = 2024
    /\ trace_x[2] = 2026

ExampleYearly ==
    << [Year |-> 2020, Total |-> 100], [Year |-> 2021, Total |-> 110],
       [Year |-> 2022, Total |-> 120], [Year |-> 2023, Total |-> 130],
       [Year |-> 2024, Total |-> 140] >>

\* C5 as claimed: on the example summary the slope is 10 and the projected
\* value is 150.
C5_ExampleGives150 ==
    (pc = "done" /\ yearly = ExampleYearly) =>
        /\ coeffs[1].a = 10 * coeffs[1].den
        /\ pred_2026 = Some(150)

\* C5: on the example summary the fitted line is count = 10 * year - 20100,
\* which is 150 at 2025, and the projected value, taken at 2026, is 160.
C5_ExampleGives160 ==
    (pc = "done" /\ yearly = ExampleYearly) =>
        /\ coeffs[1].a = 10 * coeffs[1].den
        /\ coeffs[1].b = (-20100) * coeffs[1].den
        /\ LineAt(coeffs[1], 2025).num = 150 * LineAt(coeffs[1], 2025).den
        /\ pred_2026 = Some(160)

\* C5's case: the run on the example summary has finished.
C5_Witness ==
    /\ pc = "done"
    /\ yearly = ExampleYearly
    /\ pred_2026 # None

\* the years of b that have fewer than 5 years of b above them
LatestFive(b) ==
    {y \in KnownYears(b) : Cardinality({z \in KnownYears(b) : z > y}) < 5}

\* the points (year, rows of that year) of the years in Y, by ascending year
PointsOf(b, Y) ==
    [i \in 1..Cardinality(Y) |->
        [Year |-> SortedSeq(Y)[i], Total |-> RowsOfYear(b, SortedSeq(Y)[i])]]

\* C6: the line is fitted on the 5 largest years of the filtered rows, each
\* with its own count, and on nothing else: the coefficients and the projected
\* value are those of these 5 points alone.
C6_WindowIsLatestFive ==
    (pc \in AfterProject /\ pred_2026 # None) =>
        /\ Cardinality(LatestFive(filtered)) = 5
        /\ coeffs[1] = PolyFit(PointsOf(filtered, LatestFive(filtered)))
        /\ pred_2026[1] \in
              {Clamp(v) : v \in RoundChoices(
                  LineAt(PolyFit(PointsOf(filtered, LatestFive(filtered))), 2026))}

\* C6's case: six years, the oldest of which has a count of its own and would
\* change the fit if it were in the window.
C6_Witness ==
    /\ pc = "done"
    /\ pred_2026 # None
    /\ Len(yearly) = 6
    /\ yearly[1].Total # yearly[2].Total
    /\ coeffs[1] # PolyFit(SubSeq(yearly, 1, 5))

\* C7 as claimed: a row whose timestamp did not parse never ends the run with
\* an error, whether some or all rows are such; the filter and the summary
\* complete and leave the row out.
C7_UnparseableNeverFatal ==
    /\ pc # "error"
    /\ pc \in AfterAggregate =>
          /\ \A r \in DOMAIN filtered : r.Year # NA
          /\ NA \notin YearlyKeys

\* the slider's whole range of observed years
FullYearRange(b) == <<Min(KnownYears(b)), Max(KnownYears(b))>>

\* C8 as claimed: with the full observed year range and every offered type
\* selected, the filtered rows are the rows with a parsed timestamp.
C8_FullSelectionKeepsParseable ==
    (/\ pc \in AfterFilter
     /\ year_range = FullYearRange(df)
     /\ selected_types = TypesOffered(df)) =>
        filtered = Parseable(df)

\* C8: with the full observed year range and every offered type selected, the
\* filtered rows are the rows with a parsed timestamp that carry a crime type,
\* or all rows with a parsed timestamp when no row carries one.
C8_FullSelectionKeepsTyped ==
    (/\ pc \in AfterFilter
     /\ year_range = FullYearRange(df)
     /\ selected_types = TypesOffered(df)) =>
        filtered =
           Select(df, {r \in DOMAIN df : /\ r.Year # NA
                                 /\ (TypesOffered(df) = {} \/ r.Type # TypeNA)})

\* C8's case: the full selection on a table that has a typed row and, in a
\* known year, a row without a type.
C8_Witness ==
    /\ pc = "aggregate"
    /\ year_range = FullYearRange(df)
    /\ selected_types = TypesOffered(df)
    /\ selected_types # {}
    /\ filtered # NoRows
    /\ \E r \in DOMAIN df : r.Year # NA /\ r.Type = TypeNA

\* C9: the counts of the yearly summary add up to the number of filtered rows
\* with a parsed timestamp, and that is the total the page reports.
C9_SumIsTotal ==
    /\ pc \in AfterAggregate => SeqSum(YearlyTotals) = Rows(Parseable(filtered))
    /\ pc = "done" => total_metric = SeqSum(YearlyTotals)

\* C9's case: a finished run whose summary has two years, one of them with
\* two rows of the same kind.
C9_Witness ==
    /\ pc = "done"
    /\ Len(yearly) = 2
    /\ \E r \in DOMAIN filtered : filtered[r] = 2
    /\ total_metric = 3

\* C10: the yearly summary has one entry for each year of the filtered rows
\* and no other; each key is inside the selected range; each count is the
\* number of filtered rows of that year, so at least 1.
C10_OneEntryPerYear ==
    pc \in AfterAggregate =>
        /\ YearlyKeys = KnownYears(filtered)
        /\ Len(yearly) = Cardinality(KnownYears(filtered))
        /\ \A i \in 1..Len(yearly) :
              /\ year_range[1] <= yearly[i].Year
              /\ yearly[i].Year <= year_range[2]
              /\ yearly[i].Total = RowsOfYear(filtered, yearly[i].Year)
              /\ yearly[i].Total >= 1

\* C10's case: a summary of two years from a table that also has a year
\* outside the selected range.
C10_Witness ==
    /\ pc = "project"
    /\ Len(yearly) = 2
    /\ \E r \in DOMAIN df : r.Year # NA /\ r.Year > year_range[2]

\* no row of df has a parsed year inside the selected range and a selected
\* type (no row can, when no year is parsed and the range was never chosen)
NoneSurvives ==
    \A r \in DOMAIN df :
        \/ r.Year = NA
        \/ /\ year_range # None
           /\ ~ /\ year_range[1] <= r.Year
                /\ r.Year <= year_range[2]
                /\ (selected_types = {} \/ r.Type \in selected_types)

\* C11 as claimed: when no row survives the filters, the run does not end in
\* an error, the yearly summary is empty and nothing is projected.
C11_EmptyIsNotFatal ==
    (pc \in AfterFilter \cup {"error"} /\ NoneSurvives) =>
        /\ pc # "error"
        /\ pc \in AfterAggregate => yearly = <<>>
        /\ pc \in AfterProject => (pred_2026 = None /\ coeffs = None)
        /\ pc = "done" => (trace_x = <<>> /\ total_metric = 0)

\* The part of C11 that the code keeps: when the filters were applied and
\* left no row, the summary is empty and nothing is projected.
EmptyAfterFilterDeclines ==
    (pc \in AfterFilter /\ filtered = NoRows) =>
        /\ pc \in AfterAggregate => yearly = <<>>
        /\ pc \in AfterProject => (pred_2026 = None /\ coeffs = None)
        /\ pc = "done" => (trace_x = <<>> /\ total_metric = 0)

\* C12: no step of a run changes the incident table, and the filtered rows of
\* every run, the first and each later one with other criteria, are taken
\* from that same table.
C12_SourceUnchanged ==
    [][/\ df' = df
       /\ pc' \in AfterFilter =>
             \A r \in DOMAIN df :
                Count(filtered', r) =
                   IF /\ r.Year # NA
                      /\ year_range'[1] <= r.Year
                      /\ r.Year <= year_range'[2]
                      /\ (selected_types' = {} \/ r.Type \in selected_types')
                   THEN df[r]
                   ELSE 0]_vars

\* C12's case: a later run, with criteria other than the first run's, has
\* filtered the table down to some of its rows with a parsed year.
C12_Witness ==
    /\ ~first_run
    /\ pc = "project"
    /\ year_range # DefaultRange(Max(KnownYears(df)))
    /\ selected_types # DefaultTypes(df)
    /\ filtered # NoRows
    /\ yearly # <<>>
    /\ filtered # Parseable(df)

\* C13: with year_range[0] > year_range[1] the filtered rows are none and the
\* yearly summary is empty, whatever the table and the selected types.
C13_InvertedRangeIsEmpty ==
    (pc \in AfterFilter /\ year_range[1] > year_range[2]) =>
        /\ filtered = NoRows
        /\ pc \in AfterAggregate => yearly = <<>>

\* C13's case: an inverted range on a table that has a row of a selected type
\* in a year between the two ends.
C13_Witness ==
    /\ pc = "project"
    /\ year_range[1] > year_range[2]
    /\ selected_types # {}
    /\ \E r \in DOMAIN df :
          /\ r.Year # NA
          /\ r.Year <= year_range[1]
          /\ r.Year >= year_range[2]
          /\ r.Type \in selected_types

\* C14 as claimed: on the first run, the year range the slider starts from
\* lies inside the observed years: its lower end is not below the smallest
\* observed year and its upper end is the largest.
C14_DefaultInsideObserved ==
    (first_run /\ pc \in AfterFilter \cup {"filter"} /\ year_range # None) =>
        /\ year_range[1] >= Min(KnownYears(df))
        /\ year_range[1] <= year_range[2]
        /\ year_range[2] = Max(KnownYears(df))

\* What the code keeps of C14: the first run's range ends at the largest
\* observed year, and starts inside the observed years exactly when these
\* span at least DefaultSpan years.
DefaultIsLastYears ==
    (first_run /\ pc \in AfterFilter \cup {"filter"} /\ year_range # None) =>
        /\ year_range = <<Max(KnownYears(df)) - 7, Max(KnownYears(df))>>
        /\ (year_range[1] >= Min(KnownYears(df)))
              <=> (Max(KnownYears(df)) - Min(KnownYears(df)) >= 7)

====
